---- MODULE Spec2Model ----
(***************************************************************************)
(* A model of src/src/eventsocket.py: EventSocketRouter (listener table,   *)
(* socket list, id counter, lifecycle hooks) and EventSocketHandler        *)
(* (open / on_message / on_close / emit), together with the two library    *)
(* functions on_message and emit rest on: re.match with the pattern        *)
(* (.+)((?:[{\[]).+) and json.loads / json.dumps.                          *)
(*                                                                         *)
(* Text is a sequence of one-character strings.  A Python optional value   *)
(* is a sequence of length 0 (None) or 1 (the value).                      *)
(***************************************************************************)
EXTENDS Integers, Sequences, FiniteSets, TLC

VARIABLES
    listeners,    \* EventSocketRouter.listeners: dict from event name to handler
    sockets,      \* EventSocketRouter.sockets: list of handler objects
    next_sid,     \* EventSocketRouter._next_sid
    id,           \* EventSocketHandler.id of each handler object
    url_param,    \* EventSocketHandler.url_param of each handler object
    count,        \* EventSocketHandler.count of each handler object
    phase,        \* where the transport is with each handler object
    delivered,    \* history: calls of on_message the transport made on each handler
    calls,        \* history: the deliveries to each handler that invoked a listener, in order
    overwritten,  \* history: event names whose listener a later registration replaced
    last          \* history: the operation that ran last and what it did

vars == <<listeners, sockets, next_sid, id, url_param, count, phase, delivered, calls,
          overwritten, last>>

(***************************************************************************)
(* Bounds of the model.                                                    *)
(***************************************************************************)
\* handler objects the transport creates
MaxConns == 4
\* messages the transport delivers to one connection
MaxMsgs == 3
\* longest text an untrusted peer sends
MaxLen == 4

None == <<>>
Some(x) == <<x>>

Range(s) == {s[i] : i \in DOMAIN s}

Max(S) == CHOOSE x \in S : \A y \in S : y <= x

(***************************************************************************)
(* JSON values: a tagged record, so that any two values can be compared.   *)
(*   number  [t |-> "num", v |-> Int]                                      *)
(*   string  [t |-> "str", v |-> text]                                     *)
(*   array   [t |-> "arr", v |-> sequence of values]                       *)
(*   object  [t |-> "obj", v |-> function from key text to value]          *)
(***************************************************************************)
JNum(n) == [t |-> "num", v |-> n]
JStr(s) == [t |-> "str", v |-> s]
JArr(s) == [t |-> "arr", v |-> s]
JObj(f) == [t |-> "obj", v |-> f]

EmptyDict == [k \in {} |-> None]

\* dict[key] = value: the entry is added or overwritten
DictSet(d, key, value) == [k \in DOMAIN d \cup {key} |-> IF k = key THEN value ELSE d[k]]

(***************************************************************************)
(* json.dumps(data) with the default separators (', ' and ': ').  The text *)
(* of the model has no backslash, no double quote inside a string and no   *)
(* control character, so a string is written between quotes unescaped.     *)
(***************************************************************************)
Digits == <<"0", "1", "2", "3", "4", "5", "6", "7", "8", "9">>

IsDigit(ch) == \E d \in DOMAIN Digits : Digits[d] = ch

DigitVal(ch) == (CHOOSE d \in DOMAIN Digits : Digits[d] = ch) - 1

RECURSIVE NatText(_)
NatText(n) == IF n < 10 THEN <<Digits[n + 1]>> ELSE NatText(n \div 10) \o <<Digits[(n % 10) + 1]>>

IntText(n) == IF n < 0 THEN <<"-">> \o NatText(-n) ELSE NatText(n)

Quoted(s) == <<"\"">> \o s \o <<"\"">>

RECURSIVE json_dumps(_), DumpItems(_, _), DumpPairs(_, _)
json_dumps(x) ==
    CASE x.t = "num" -> IntText(x.v)
      [] x.t = "lit" -> x.v
      [] x.t = "str" -> Quoted(x.v)
      [] x.t = "arr" -> <<"[">> \o DumpItems(x.v, 1) \o <<"]">>
      [] x.t = "obj" -> <<"{">> \o DumpPairs(x.v, DOMAIN x.v) \o <<"}">>

\* the items of a list from index i on, joined by ', '
DumpItems(s, i) ==
    IF i > Len(s) THEN <<>>
    ELSE json_dumps(s[i]) \o (IF i < Len(s) THEN <<",", " ">> ELSE <<>>) \o DumpItems(s, i + 1)

\* the entries of a dict whose keys are still to be written, joined by ', '
DumpPairs(d, keys) ==
    IF keys = {} THEN <<>>
    ELSE LET k == CHOOSE k \in keys : TRUE
         IN Quoted(k) \o <<":", " ">> \o json_dumps(d[k])
            \o (IF keys = {k} THEN <<>> ELSE <<",", " ">>) \o DumpPairs(d, keys \ {k})

(***************************************************************************)
(* json.loads(text): the scanner of the json module.  A result is          *)
(* [ok, val, end]: ok is FALSE exactly when json raises JSONDecodeError,   *)
(* end is the index of the first character not yet read.  Numbers are the  *)
(* integer part of NUMBER_RE; the text of the model has no '.', 'e' or     *)
(* 'E', so no float is ever scanned.                                       *)
(***************************************************************************)
JLit(s) == [t |-> "lit", v |-> s]

Literals == {<<"n", "u", "l", "l">>, <<"t", "r", "u", "e">>, <<"f", "a", "l", "s", "e">>}

WS == {" ", "\t", "\n", "\r"}

Fail == [ok |-> FALSE, val |-> JNum(0), end |-> 0]

Ok(v, e) == [ok |-> TRUE, val |-> v, end |-> e]

StartsWith(s, i, w) == i + Len(w) - 1 <= Len(s) /\ SubSeq(s, i, i + Len(w) - 1) = w

RECURSIVE SkipWs(_, _)
SkipWs(s, i) == IF i <= Len(s) /\ s[i] \in WS THEN SkipWs(s, i + 1) ELSE i

RECURSIVE ScanDigits(_, _, _)
ScanDigits(s, i, acc) ==
    IF i <= Len(s) /\ IsDigit(s[i]) THEN ScanDigits(s, i + 1, acc * 10 + DigitVal(s[i]))
    ELSE [val |-> acc, end |-> i]

\* NUMBER_RE: -?(0|[1-9][0-9]*)
ScanNumber(s, i) ==
    LET neg == i <= Len(s) /\ s[i] = "-"
        j == IF neg THEN i + 1 ELSE i
    IN  IF j > Len(s) \/ ~IsDigit(s[j]) THEN Fail
        ELSE IF s[j] = "0" THEN Ok(JNum(0), j + 1)
        ELSE LET d == ScanDigits(s, j, 0)
             IN Ok(JNum(IF neg THEN -d.val ELSE d.val), d.end)

\* py_scanstring from the opening quote at i: up to the next quote, strict mode
ScanString(s, i) ==
    LET closing == {j \in (i + 1)..Len(s) : s[j] = "\""}
    IN  IF closing = {} THEN Fail
        ELSE LET j == CHOOSE j \in closing : \A k \in closing : j <= k
                 body == SubSeq(s, i + 1, j - 1)
             IN IF \E k \in DOMAIN body : body[k] \in {"\t", "\n", "\r"} THEN Fail
                ELSE Ok(JStr(body), j + 1)

RECURSIVE ParseValue(_, _), ParseArrayItems(_, _, _), ParseObjectItems(_, _, _)
\* scan_once(s, i)
ParseValue(s, i) ==
    IF i > Len(s) THEN Fail
    ELSE CASE s[i] = "\"" -> ScanString(s, i)
           [] s[i] = "{" ->
                LET j == SkipWs(s, i + 1)
                IN  IF j > Len(s) THEN Fail
                    ELSE IF s[j] = "}" THEN Ok(JObj(EmptyDict), j + 1)
                    ELSE IF s[j] # "\"" THEN Fail
                    ELSE ParseObjectItems(s, j, EmptyDict)
           [] s[i] = "[" ->
                LET j == SkipWs(s, i + 1)
                IN  IF j <= Len(s) /\ s[j] = "]" THEN Ok(JArr(<<>>), j + 1)
                    ELSE ParseArrayItems(s, j, <<>>)
           [] OTHER ->
                IF \E w \in Literals : StartsWith(s, i, w)
                THEN LET w == CHOOSE w \in Literals : StartsWith(s, i, w)
                     IN Ok(JLit(w), i + Len(w))
                ELSE ScanNumber(s, i)

\* JSONArray: the item at i, then ']' or ',' and the next item
ParseArrayItems(s, i, acc) ==
    LET r == ParseValue(s, i)
        j == SkipWs(s, r.end)
    IN  IF ~r.ok THEN Fail
        ELSE IF j > Len(s) THEN Fail
        ELSE IF s[j] = "]" THEN Ok(JArr(Append(acc, r.val)), j + 1)
        ELSE IF s[j] # "," THEN Fail
        ELSE ParseArrayItems(s, SkipWs(s, j + 1), Append(acc, r.val))

\* JSONObject: the key at i (a quote), ':', the value, then '}' or ',' and the next key
ParseObjectItems(s, i, acc) ==
    LET key == ScanString(s, i)
        j == SkipWs(s, key.end)
        v == ParseValue(s, SkipWs(s, j + 1))
        d == DictSet(acc, key.val.v, v.val)
        m == SkipWs(s, v.end)
        n == SkipWs(s, m + 1)
    IN  IF ~key.ok THEN Fail
        ELSE IF j > Len(s) \/ s[j] # ":" THEN Fail
        ELSE IF ~v.ok THEN Fail
        ELSE IF m > Len(s) THEN Fail
        ELSE IF s[m] = "}" THEN Ok(JObj(d), m + 1)
        ELSE IF s[m] # "," THEN Fail
        ELSE IF n > Len(s) \/ s[n] # "\"" THEN Fail
        ELSE ParseObjectItems(s, n, d)

\* JSONDecoder.decode: one value, surrounded by white space only
json_loads(s) ==
    LET r == ParseValue(s, SkipWs(s, 1))
    IN  IF ~r.ok THEN Fail
        ELSE IF SkipWs(s, r.end) # Len(s) + 1 THEN Fail
        ELSE r

(***************************************************************************)
(* re.match(r'(.+)((?:[{\[]).+)', message).  Both '.+' are greedy and '.'  *)
(* matches any character but a newline, so group 1 ends at the LAST '{' or *)
(* '[' that at least one more character follows, and group 2 runs from     *)
(* that bracket to the end of the line.  The result is None or the groups. *)
(***************************************************************************)
Dot(ch) == ch # "\n"

Bracket(ch) == ch \in {"{", "["}

\* the end of the longest run of '.' characters that starts at i (i - 1: no run)
RECURSIVE DotRun(_, _)
DotRun(s, i) == IF i <= Len(s) /\ Dot(s[i]) THEN DotRun(s, i + 1) ELSE i - 1

re_match(message) ==
    LET n == DotRun(message, 1)
        ks == {k \in 2..Len(message) :
                  /\ k - 1 <= n
                  /\ Bracket(message[k])
                  /\ k + 1 <= Len(message)
                  /\ Dot(message[k + 1])}
    IN  IF ks = {} THEN None
        ELSE LET k == Max(ks)
             IN Some([group1 |-> SubSeq(message, 1, k - 1),
                      group2 |-> SubSeq(message, k, DotRun(message, k + 1))])

(***************************************************************************)
(* The inputs of the model.                                                *)
(***************************************************************************)
\* the handler objects the transport creates, one per connection
Conns == 1..MaxConns

\* the value the transport passes to open()
UrlParams == {<<"r">>}

\* event names the application registers and emits; the second holds a '['
EventNames == {<<"a">>, <<"a", "[">>}

\* application callbacks: h1 returns, h2 raises KeyError, h3 raises IndexError
Handlers == {"h1", "h2", "h3"}

\* the numbers the application looks connections up by
SocketIds == (0 - 1)..MaxConns

\* listener.__name__ of each callback: three functions named 'a'
FuncName(h) == <<"a">>

\* what the application passes to on(): a string, a callable, or neither (a number)
OnArgs ==
    {[kind |-> "str", name |-> e, func |-> ""] : e \in EventNames}
    \cup {[kind |-> "callable", name |-> <<>>, func |-> h] : h \in Handlers}
    \cup {[kind |-> "other", name |-> <<>>, func |-> ""]}

Raises(h) == CASE h = "h2" -> "KeyError" [] h = "h3" -> "IndexError" [] OTHER -> "None"

\* payloads the application emits: flat and nested arrays and objects
Payloads ==
    {JArr(<<>>), JObj(EmptyDict), JArr(<<JNum(1), JNum(1)>>),
     JObj(DictSet(EmptyDict, <<"a">>, JNum(1))),
     JArr(<<JArr(<<JNum(1)>>)>>), JArr(<<JStr(<<"[">>)>>)}

\* the characters of the text an untrusted peer sends
Alphabet == {"a", "1", "[", "]", "{", "}"}

RECURSIVE TextsOfLen(_)
TextsOfLen(n) ==
    IF n = 0 THEN {<<>>}
    ELSE {Append(s, ch) : s \in TextsOfLen(n - 1), ch \in Alphabet}

\* every text of at most MaxLen characters
RawMessages == UNION {TextsOfLen(n) : n \in 0..MaxLen}

(***************************************************************************)
(* EventSocketRouter                                                       *)
(***************************************************************************)
\* a registration that keeps the listener an event already has
register_listener_keeps_first(ls, event, listener) ==
    IF event \in DOMAIN ls THEN ls ELSE DictSet(ls, event, listener)

\* self.listeners[event] = listener
register_listener(ls, event, listener) == DictSet(ls, event, listener)

\* try: return self.sockets[id]  except IndexError: return None.  A list index
\* counts places from 0, and a negative one counts from the end of the list.
get_socket_by_id(socks, i) ==
    IF i >= 0
    THEN IF i < Len(socks) THEN Some(socks[i + 1]) ELSE None
    ELSE IF 0 - i <= Len(socks) THEN Some(socks[Len(socks) + i + 1]) ELSE None

\* a registration that numbers a socket by its place in the list
register_socket_by_place(socks, sid, socket) ==
    [sockets |-> Append(socks, socket), next_sid |-> sid + 1, ret |-> Len(socks)]

\* a registration that leaves the counter where it was
register_socket_no_increment(socks, sid, socket) ==
    [sockets |-> Append(socks, socket), next_sid |-> sid, ret |-> sid]

\* append, increment, return the counter minus one
register_socket(socks, sid, socket) ==
    [sockets |-> Append(socks, socket), next_sid |-> sid + 1, ret |-> (sid + 1) - 1]

\* an on() that returns quietly when its argument is neither a string nor a callable
on_lenient(ls, arg) ==
    CASE arg.kind = "str" -> [listeners |-> ls, exc |-> "None", decorator |-> Some(arg.name)]
      [] arg.kind = "callable" ->
            [listeners |-> register_listener(ls, FuncName(arg.func), arg.func),
             exc |-> "None", decorator |-> None]
      [] OTHER -> [listeners |-> ls, exc |-> "None", decorator |-> None]

\* on(arg): a string gives back a decorator that will register under that name, a
\* callable is registered under its __name__, anything else raises TypeError
on(ls, arg) ==
    CASE arg.kind = "str" -> [listeners |-> ls, exc |-> "None", decorator |-> Some(arg.name)]
      [] arg.kind = "callable" ->
            [listeners |-> register_listener(ls, FuncName(arg.func), arg.func),
             exc |-> "None", decorator |-> None]
      [] OTHER -> [listeners |-> ls, exc |-> "TypeError", decorator |-> None]

\* the decorator on('event') returned, applied to func
decorator(ls, event, func) == register_listener(ls, event, func)

\* a dispatch that lets the KeyError of a missing listener out
on_received_message_unguarded(ls, event) ==
    IF event \in DOMAIN ls
    THEN [invoked |-> Some(ls[event]), nolistener |-> FALSE, exc |-> Raises(ls[event])]
    ELSE [invoked |-> None, nolistener |-> FALSE, exc |-> "KeyError"]

\* try: self.listeners[event](data, socket)  except KeyError or IndexError: warn.
\* 'KeyError or IndexError' evaluates to KeyError, so the except clause catches
\* KeyError alone, whether the lookup or the listener's body raised it.
on_received_message(ls, event) ==
    IF event \notin DOMAIN ls
    THEN [invoked |-> None, nolistener |-> TRUE, exc |-> "None"]
    ELSE LET raised == Raises(ls[event])
         IN [invoked |-> Some(ls[event]),
             nolistener |-> raised = "KeyError",
             exc |-> IF raised = "KeyError" THEN "None" ELSE raised]

(***************************************************************************)
(* EventSocketHandler                                                      *)
(***************************************************************************)
\* what a lifecycle hook of the router sees of the handler it is called with
HookCall(name, socks, c, cid, url) ==
    [name |-> name, conn |-> c, registered |-> c \in Range(socks), id |-> cid, url_param |-> url]

\* an open that calls the hook before it registers the socket
add_to_router_hook_first(socks, sid, c, url) ==
    LET r == register_socket(socks, sid, c)
    IN  [sockets |-> r.sockets, next_sid |-> r.next_sid, id |-> Some(r.ret),
         hook |-> HookCall("on_open", socks, c, None, url)]

\* self.id = self.router.register_socket(self); self.router.on_open(self)
add_to_router(socks, sid, c, url) ==
    LET r == register_socket(socks, sid, c)
    IN  [sockets |-> r.sockets, next_sid |-> r.next_sid, id |-> Some(r.ret),
         hook |-> HookCall("on_open", r.sockets, c, Some(r.ret), url)]

\* list.remove(x): the list without its first item equal to x
ListRemove(s, x) ==
    LET i == CHOOSE i \in DOMAIN s : s[i] = x /\ \A j \in 1..(i - 1) : s[j] # x
    IN  SubSeq(s, 1, i - 1) \o SubSeq(s, i + 1, Len(s))

\* self.router.sockets.remove(self); self.router.on_close(self)
\* list.remove raises ValueError when self is not in the list
close_socket(socks, c, cid, url) ==
    IF c \notin Range(socks)
    THEN [sockets |-> socks, exc |-> "ValueError", hook |-> None]
    ELSE LET rest == ListRemove(socks, c)
         IN [sockets |-> rest, exc |-> "None",
             hook |-> Some(HookCall("on_close", rest, c, cid, url))]

\* '{event}{json}'.format(event=event, json=json.dumps(data))
to_send(event, data) == event \o json_dumps(data)

\* The body of on_message.  match.group on None raises AttributeError, which the
\* except clause (JSONDecodeError only) does not catch; neither does it catch what
\* on_received_message lets through.  self.count += 1 runs unless an exception escapes.
receive(ls, message) ==
    LET match == re_match(message)
        event == match[1].group1
        data == json_loads(match[1].group2)
        r == on_received_message(ls, event)
    IN  IF match = None
        THEN [dispatched |-> None, invoked |-> None, nolistener |-> FALSE,
              dropped |-> FALSE, exc |-> "AttributeError", counted |-> FALSE]
        ELSE IF ~data.ok
        THEN [dispatched |-> None, invoked |-> None, nolistener |-> FALSE,
              dropped |-> TRUE, exc |-> "None", counted |-> TRUE]
        ELSE [dispatched |-> Some([event |-> event, data |-> data.val]),
              invoked |-> r.invoked, nolistener |-> r.nolistener,
              dropped |-> FALSE, exc |-> r.exc, counted |-> r.exc = "None"]

\* a dispatch put aside and run after the dispatches of later messages
listener_called_late(done, n) == IF done = <<>> THEN <<n>> ELSE <<n>> \o done

\* self.router.on_received_message(event, data, self) calls the listener at once, within
\* the on_message of the n-th delivery: the invocation comes after all earlier ones
listener_called(done, n) == Append(done, n)

(***************************************************************************)
(* The record of the operation that ran last.                              *)
(***************************************************************************)
Quiet ==
    [op |-> "init", conn |-> 0, msg |-> <<>>, event |-> <<>>, handler |-> "",
     old |-> None, dispatched |-> None, invoked |-> None, nolistener |-> FALSE,
     dropped |-> FALSE, exc |-> "None", hook |-> None, ret |-> None, member |-> FALSE,
     arg |-> "", registers |-> FALSE, key |-> None]

(***************************************************************************)
(* The state after EventSocketRouter.__init__ and, for every handler       *)
(* object, EventSocketHandler.initialize.                                  *)
(***************************************************************************)
Init ==
    /\ listeners = [e \in {} |-> ""]
    /\ sockets = <<>>
    /\ next_sid = 0
    /\ id = [c \in Conns |-> None]
    /\ url_param = [c \in Conns |-> None]
    /\ count = [c \in Conns |-> 0]
    /\ phase = [c \in Conns |-> "created"]
    /\ delivered = [c \in Conns |-> 0]
    /\ calls = [c \in Conns |-> <<>>]
    /\ overwritten = {}
    /\ last = Quiet

(***************************************************************************)
(* The operations.                                                         *)
(***************************************************************************)
\* router.register_listener(event, listener)
RegisterListener(event, listener) ==
    /\ listeners' = register_listener(listeners, event, listener)
    /\ overwritten' = IF event \in DOMAIN listeners /\ listeners[event] # listener
                      THEN overwritten \cup {event} ELSE overwritten
    /\ last' = [Quiet EXCEPT !.op = "register_listener", !.event = event,
                             !.handler = listener, !.registers = TRUE,
                             !.old = IF event \in DOMAIN listeners
                                     THEN Some(listeners[event]) ELSE None]
    /\ UNCHANGED <<sockets, next_sid, id, url_param, count, phase, delivered, calls>>

\* router.on(arg); last.ret is the event name the returned decorator is bound to
On(arg) ==
    /\ LET r == on(listeners, arg)
           event == FuncName(arg.func)
       IN  /\ listeners' = r.listeners
           /\ overwritten' = IF /\ arg.kind = "callable"
                                /\ event \in DOMAIN listeners
                                /\ listeners[event] # arg.func
                             THEN overwritten \cup {event} ELSE overwritten
           /\ last' = [Quiet EXCEPT !.op = "on", !.arg = arg.kind, !.exc = r.exc,
                                    !.ret = r.decorator,
                                    !.registers = (arg.kind = "callable"),
                                    !.event = IF arg.kind = "callable" THEN event
                                              ELSE arg.name,
                                    !.handler = arg.func,
                                    !.old = IF arg.kind = "callable" /\ event \in DOMAIN listeners
                                            THEN Some(listeners[event]) ELSE None]
    /\ UNCHANGED <<sockets, next_sid, id, url_param, count, phase, delivered, calls>>

\* @router.on('event') def func: the decorator on() just returned is applied to func
Decorate(func) ==
    /\ last.op = "on"
    /\ last.ret # None
    /\ LET event == last.ret[1]
       IN  /\ listeners' = decorator(listeners, event, func)
           /\ overwritten' = IF event \in DOMAIN listeners /\ listeners[event] # func
                             THEN overwritten \cup {event} ELSE overwritten
           /\ last' = [Quiet EXCEPT !.op = "decorator", !.event = event,
                                    !.handler = func, !.registers = TRUE,
                                    !.old = IF event \in DOMAIN listeners
                                            THEN Some(listeners[event]) ELSE None]
    /\ UNCHANGED <<sockets, next_sid, id, url_param, count, phase, delivered, calls>>

\* the transport reports a new connection: handler.open(url_param)
open(c, u) ==
    /\ phase[c] = "created"
    /\ LET r == add_to_router(sockets, next_sid, c, url_param[c])
       IN  /\ sockets' = r.sockets
           /\ next_sid' = r.next_sid
           /\ id' = [id EXCEPT ![c] = r.id]
           /\ last' = [Quiet EXCEPT !.op = "open", !.conn = c, !.ret = r.id,
                                    !.hook = Some(r.hook)]
    /\ url_param' = [url_param EXCEPT ![c] = Some(u)]
    /\ phase' = [phase EXCEPT ![c] = "open"]
    /\ UNCHANGED <<listeners, count, delivered, calls, overwritten>>

\* handler.open(url_param) in a thread of its own, as far as line 53 of register_socket
register_socket_append(c) ==
    /\ phase[c] = "created"
    /\ sockets' = Append(sockets, c)
    /\ phase' = [phase EXCEPT ![c] = "appended"]
    /\ last' = [Quiet EXCEPT !.op = "register_socket", !.conn = c]
    /\ UNCHANGED <<listeners, next_sid, id, url_param, count, delivered, calls, overwritten>>

\* the same thread at line 54: self._next_sid += 1
register_socket_increment(c) ==
    /\ phase[c] = "appended"
    /\ next_sid' = next_sid + 1
    /\ phase' = [phase EXCEPT ![c] = "incremented"]
    /\ last' = [Quiet EXCEPT !.op = "register_socket", !.conn = c]
    /\ UNCHANGED <<listeners, sockets, id, url_param, count, delivered, calls, overwritten>>

\* the same thread at line 55 and back in add_to_router and open: the id is what
\* _next_sid - 1 is now, then the hook, then url_param
register_socket_return(c, u) ==
    /\ phase[c] = "incremented"
    /\ id' = [id EXCEPT ![c] = Some(next_sid - 1)]
    /\ url_param' = [url_param EXCEPT ![c] = Some(u)]
    /\ phase' = [phase EXCEPT ![c] = "open"]
    /\ last' = [Quiet EXCEPT !.op = "open", !.conn = c, !.ret = Some(next_sid - 1),
                             !.hook = Some(HookCall("on_open", sockets, c,
                                                    Some(next_sid - 1), url_param[c]))]
    /\ UNCHANGED <<listeners, sockets, next_sid, count, delivered, calls, overwritten>>

\* router.get_socket_by_id(i), called by the application
GetSocketById(i) ==
    /\ last' = [Quiet EXCEPT !.op = "get_socket_by_id", !.key = Some(i),
                             !.ret = get_socket_by_id(sockets, i)]
    /\ UNCHANGED <<listeners, sockets, next_sid, id, url_param, count, phase,
                   delivered, calls, overwritten>>

\* handler.on_close(), whether or not the handler was ever opened
on_close(c) ==
    /\ LET r == close_socket(sockets, c, id[c], url_param[c])
       IN  /\ sockets' = r.sockets
           /\ last' = [Quiet EXCEPT !.op = "on_close", !.conn = c, !.exc = r.exc,
                                    !.hook = r.hook, !.member = c \in Range(sockets)]
    /\ phase' = [phase EXCEPT ![c] = "closed"]
    /\ UNCHANGED <<listeners, next_sid, id, url_param, count, delivered, calls, overwritten>>

\* an on_message that drops the connection from the router when the message is not dispatched
on_message_unregistering(c, message) ==
    /\ phase[c] = "open"
    /\ delivered[c] < MaxMsgs
    /\ LET r == receive(listeners, message)
           n == delivered[c] + 1
       IN  /\ count' = [count EXCEPT ![c] = IF r.counted THEN @ + 1 ELSE @]
           /\ calls' = [calls EXCEPT ![c] = IF r.invoked # None THEN listener_called(@, n)
                                            ELSE @]
           /\ sockets' = IF r.dispatched = None THEN ListRemove(sockets, c) ELSE sockets
           /\ last' = [Quiet EXCEPT !.op = "on_message", !.conn = c, !.msg = message,
                                    !.dispatched = r.dispatched, !.invoked = r.invoked,
                                    !.nolistener = r.nolistener, !.dropped = r.dropped,
                                    !.exc = r.exc]
    /\ delivered' = [delivered EXCEPT ![c] = @ + 1]
    /\ UNCHANGED <<listeners, next_sid, id, url_param, phase, overwritten>>

\* the transport delivers a text message: handler.on_message(message).  The listener,
\* if one is invoked, runs inside this call, before on_message returns.
on_message(c, message) ==
    /\ phase[c] = "open"
    /\ delivered[c] < MaxMsgs
    /\ LET r == receive(listeners, message)
           n == delivered[c] + 1
       IN  /\ count' = [count EXCEPT ![c] = IF r.counted THEN @ + 1 ELSE @]
           /\ calls' = [calls EXCEPT ![c] = IF r.invoked # None THEN listener_called(@, n)
                                            ELSE @]
           /\ last' = [Quiet EXCEPT !.op = "on_message", !.conn = c, !.msg = message,
                                    !.dispatched = r.dispatched, !.invoked = r.invoked,
                                    !.nolistener = r.nolistener, !.dropped = r.dropped,
                                    !.exc = r.exc]
    /\ delivered' = [delivered EXCEPT ![c] = @ + 1]
    /\ UNCHANGED <<listeners, sockets, next_sid, id, url_param, phase, overwritten>>

\* handler.emit(event, data): the text goes to write_message
emit(c, event, data) ==
    /\ phase[c] = "open"
    /\ last' = [Quiet EXCEPT !.op = "emit", !.conn = c, !.event = event,
                             !.msg = to_send(event, data)]
    /\ UNCHANGED <<listeners, sockets, next_sid, id, url_param, count, phase,
                   delivered, calls, overwritten>>

(***************************************************************************)
(* Specifications.                                                         *)
(***************************************************************************)
\* a well-formed message, one for an event nobody registers, one without a
\* bracket and one whose payload is not JSON
Samples == {<<"a", "[", "1", "]">>, <<"1", "{", "}">>, <<"a">>, <<"a", "[", "[">>}

\* what a peer that speaks the same protocol sends: the text emit wrote last
Echo == IF last.op = "emit" THEN {last.msg} ELSE {}

\* the connection the messaging specifications follow
First == 1

\* Connection lifecycle: every handler object is opened and closed by the transport.
NextConn ==
    \/ \E c \in Conns, u \in UrlParams : open(c, u)
    \/ \E c \in Conns : on_close(c)
    \/ \E i \in SocketIds : GetSocketById(i)

SpecConn == Init /\ [][NextConn]_vars

\* Connections opened from threads of their own: the statements of register_socket
\* of one open interleave with those of another.
NextThreads ==
    \/ \E c \in Conns : register_socket_append(c)
    \/ \E c \in Conns : register_socket_increment(c)
    \/ \E c \in Conns, u \in UrlParams : register_socket_return(c, u)

SpecThreads == Init /\ [][NextThreads]_vars

\* One connection and its messages, from a peer that echoes or sends a sample.
Next ==
    \/ \E e \in EventNames, h \in Handlers : RegisterListener(e, h)
    \/ \E arg \in OnArgs : On(arg)
    \/ \E h \in Handlers : Decorate(h)
    \/ \E u \in UrlParams : open(First, u)
    \/ on_close(First)
    \/ \E e \in EventNames, p \in Payloads : emit(First, e, p)
    \/ \E m \in Echo \cup Samples : on_message(First, m)

Spec == Init /\ [][Next]_vars

\* The first message of a connection, from a peer that echoes or sends any text.
NextCodec ==
    \/ \E e \in EventNames : RegisterListener(e, "h1")
    \/ \E u \in UrlParams : open(First, u)
    \/ \E e \in EventNames, p \in Payloads : emit(First, e, p)
    \/ delivered[First] = 0 /\ \E m \in Echo \cup RawMessages : on_message(First, m)

SpecCodec == Init /\ [][NextCodec]_vars

(***************************************************************************)
(* What the claims speak of.                                               *)
(***************************************************************************)
HasBracket(s) == \E i \in DOMAIN s : Bracket(s[i])

\* the position of the first '{' or '[' of a text that has one
FirstBracket(s) == CHOOSE i \in DOMAIN s : Bracket(s[i]) /\ \A j \in 1..(i - 1) : ~Bracket(s[j])

\* the text before the first bracket, and the text from it on
Prefix(s) == SubSeq(s, 1, FirstBracket(s) - 1)

Remainder(s) == SubSeq(s, FirstBracket(s), Len(s))

\* on_message ran last, on this text
Received == last.op = "on_message"

\* on_message ran last and called on_received_message
Dispatched == Received /\ last.dispatched # None

(***************************************************************************)
(* C1: whenever on_message dispatches, the event it passes is the text     *)
(* before the FIRST '{' or '[' of the message and the payload is the JSON  *)
(* value of the rest; and a message whose rest is JSON with nested         *)
(* brackets is dispatched so.  Fails: the greedy (.+) splits at the LAST   *)
(* bracket, so a[[] goes to event 'a[' and a[[1]] is dropped.              *)
(***************************************************************************)
C1_SplitAtFirstBracket ==
    Received =>
        /\ Dispatched =>
              /\ last.dispatched[1].event = Prefix(last.msg)
              /\ json_loads(Remainder(last.msg)).ok
              /\ last.dispatched[1].data = json_loads(Remainder(last.msg)).val
        /\ (/\ HasBracket(last.msg)
            /\ Prefix(last.msg) # <<>>
            /\ json_loads(Remainder(last.msg)).ok)
           => Dispatched

(***************************************************************************)
(* C2: round trip.  For every event name e that is not empty and has no    *)
(* bracket and every payload p, the text emit(e, p) writes, fed to         *)
(* on_message, is dispatched to event e with payload p.  Fails for a       *)
(* payload with a bracket inside it: a nested array, a '[' in a string.    *)
(***************************************************************************)
C2_RoundTrip ==
    \A e \in EventNames, p \in Payloads :
        (Received /\ e # <<>> /\ ~HasBracket(e) /\ last.msg = to_send(e, p))
        => last.dispatched = Some([event |-> e, data |-> p])

(***************************************************************************)
(* C3: a message with no '{' and no '[' invokes no listener, lets no       *)
(* exception out of on_message and leaves the connection in the router's   *)
(* sockets.  Fails: re.match returns None and match.group raises           *)
(* AttributeError, which on_message does not catch.                        *)
(***************************************************************************)
C3_NoBracketDropped ==
    (Received /\ ~HasBracket(last.msg))
    => /\ last.invoked = None
       /\ last.exc = "None"
       /\ last.conn \in Range(sockets)

(***************************************************************************)
(* C4: a message whose first character is '{' or '[' invokes no listener   *)
(* and lets no exception out of on_message.  Fails: with no bracket after  *)
(* the first character re.match returns None (AttributeError); with one,   *)
(* the message is split there and dispatched.                              *)
(***************************************************************************)
C4_EmptyEventDropped ==
    (Received /\ last.msg # <<>> /\ Bracket(last.msg[1]))
    => /\ last.invoked = None
       /\ last.exc = "None"

(***************************************************************************)
(* C5: a message with a non-empty event prefix whose rest, from the first  *)
(* bracket on, is not JSON invokes no listener and lets no exception out   *)
(* of on_message.  Fails: a[ raises AttributeError, and a[[] is split at   *)
(* the last bracket and dispatched to the listener of 'a['.                *)
(***************************************************************************)
C5_BadJsonDropped ==
    (/\ Received
     /\ HasBracket(last.msg)
     /\ Prefix(last.msg) # <<>>
     /\ ~json_loads(Remainder(last.msg)).ok)
    => /\ last.invoked = None
       /\ last.exc = "None"

(***************************************************************************)
(* C6: the ids register_socket returns start at 0 and go up by one with    *)
(* each registration, and no id is issued twice whatever is closed in      *)
(* between.  (A handler keeps its id after on_close.)                      *)
(***************************************************************************)
Issued == {c \in Conns : id[c] # None}

C6_IdsNeverReused ==
    /\ \A c \in Issued, d \in Issued : c # d => id[c] # id[d]
    /\ {id[c][1] : c \in Issued} = 0..(Cardinality(Issued) - 1)
    /\ last.op = "open" =>
          /\ last.ret = Some(Cardinality(Issued) - 1)
          /\ id[last.conn] = last.ret

\* three sockets registered, the second closed, then a fourth registered: it gets 3
C6_Witness ==
    /\ last.op = "open"
    /\ last.ret = Some(3)
    /\ Len(sockets) = 3
    /\ \E c \in Issued : id[c] = Some(1) /\ c \notin Range(sockets)

(***************************************************************************)
(* C7: on_close for a handler that is not in the router's sockets (never   *)
(* registered, or removed already) raises nothing and leaves the sockets   *)
(* as they were.  Fails: list.remove raises ValueError.                    *)
(***************************************************************************)
C7_CloseAbsentNoFault ==
    (last.op = "on_close" /\ ~last.member) => last.exc = "None"

(***************************************************************************)
(* C8: dispatching an event that has no listener raises nothing to the     *)
(* caller, invokes no handler, and leaves the listeners, the sockets and   *)
(* the id counter as they were.                                            *)
(***************************************************************************)
C8_UnknownEventQuiet ==
    [][(/\ last'.op = "on_message"
        /\ last'.dispatched # None
        /\ last'.dispatched[1].event \notin DOMAIN listeners)
       => /\ last'.exc = "None"
          /\ last'.invoked = None
          /\ listeners' = listeners
          /\ sockets' = sockets
          /\ next_sid' = next_sid]_vars

C8_Witness ==
    /\ Dispatched
    /\ last.dispatched[1].event \notin DOMAIN listeners
    /\ last.nolistener
    /\ DOMAIN listeners # {}

(***************************************************************************)
(* C9: last registration wins.  A registration of x (by register_listener, *)
(* by on(callable) or by the decorator that on('x') returns) sets the      *)
(* listener of x to the handler given and leaves every other event's       *)
(* listener alone,                                                         *)
(* nothing else changes the table, and a dispatch of x invokes the         *)
(* listener the table holds for x: the one registered last for x.          *)
(***************************************************************************)
C9_LastRegistrationWins ==
    [][/\ last'.registers =>
             /\ DOMAIN listeners' = DOMAIN listeners \cup {last'.event}
             /\ listeners'[last'.event] = last'.handler
             /\ \A e \in DOMAIN listeners : e # last'.event => listeners'[e] = listeners[e]
       /\ ~last'.registers => listeners' = listeners
       /\ (/\ last'.op = "on_message"
           /\ last'.dispatched # None
           /\ last'.dispatched[1].event \in DOMAIN listeners)
          => last'.invoked = Some(listeners[last'.dispatched[1].event])]_vars

\* an event whose first listener was replaced is dispatched to the later one
C9_Witness ==
    /\ Dispatched
    /\ last.dispatched[1].event \in overwritten
    /\ last.invoked = Some(listeners[last.dispatched[1].event])
    /\ DOMAIN listeners = EventNames

(***************************************************************************)
(* C10: the on_open hook is called for a handler that is already in the    *)
(* sockets with its id assigned; the on_close hook is called for a handler *)
(* that is already out of the sockets; and a closed handler is never in    *)
(* the sockets.                                                            *)
(***************************************************************************)
C10_LifecycleOrder ==
    /\ last.op = "open" =>
          /\ last.hook # None
          /\ last.hook[1].name = "on_open"
          /\ last.hook[1].conn = last.conn
          /\ last.hook[1].registered
          /\ last.hook[1].id # None
          /\ last.hook[1].id = id[last.conn]
    /\ (last.op = "on_close" /\ last.hook # None) =>
          /\ last.hook[1].name = "on_close"
          /\ last.hook[1].conn = last.conn
          /\ ~last.hook[1].registered
    /\ \A c \in Conns : phase[c] = "closed" => c \notin Range(sockets)

\* a registered handler was closed, its hook ran, and others are still open
C10_Witness ==
    /\ last.op = "on_close"
    /\ last.hook # None
    /\ id[last.conn] # None
    /\ phase[last.conn] = "closed"
    /\ sockets # <<>>

(***************************************************************************)
(* C11: on(arg) with an argument that is neither a string nor a callable   *)
(* raises TypeError to its caller and leaves the listeners as they were.   *)
(***************************************************************************)
C11_OnRejectsOther ==
    [][(last'.op = "on" /\ last'.arg = "other")
       => /\ last'.exc = "TypeError"
          /\ last'.ret = None
          /\ listeners' = listeners]_vars

\* on(4) raised while listeners were registered
C11_Witness ==
    /\ last.op = "on"
    /\ last.arg = "other"
    /\ last.exc = "TypeError"
    /\ DOMAIN listeners = EventNames

(***************************************************************************)
(* C12: after k messages have been delivered to a connection its count is  *)
(* k, whatever became of each message.  Fails: self.count += 1 is the last *)
(* statement of on_message and is skipped when an exception leaves it (a   *)
(* message without a bracket, a listener raising IndexError).              *)
(***************************************************************************)
C12_CountEqualsDelivered == \A c \in Conns : count[c] = delivered[c]

(***************************************************************************)
(* C13: a dispatch ends as 'no listener found' exactly when no listener is *)
(* registered for the event.  Fails: a KeyError raised by the listener's   *)
(* own body is caught by the same except clause and logged as no listener. *)
(***************************************************************************)
C13_NoListenerIffUnregistered ==
    Dispatched => (last.nolistener <=> last.dispatched[1].event \notin DOMAIN listeners)

(***************************************************************************)
(* C14: an exception raised inside a registered listener never leaves      *)
(* on_received_message, so on_message completes.  Fails: the except clause *)
(* 'KeyError or IndexError' is 'except KeyError'; an IndexError from the   *)
(* listener goes through on_received_message and on_message.               *)
(***************************************************************************)
C14_HandlerFaultContained ==
    (Dispatched /\ last.invoked # None) => last.exc = "None"

(***************************************************************************)
(* C15: in every reachable state the active set has no duplicates, every   *)
(* member holds an id that register_socket issued (one of 0.._next_sid-1), *)
(* distinct members hold distinct ids, and the set is no larger than       *)
(* _next_sid.                                                              *)
(***************************************************************************)
C15_ActiveSetWellFormed ==
    /\ \A i, j \in DOMAIN sockets : i # j => sockets[i] # sockets[j]
    /\ \A i \in DOMAIN sockets :
          /\ id[sockets[i]] # None
          /\ id[sockets[i]][1] \in 0..(next_sid - 1)
    /\ \A i, j \in DOMAIN sockets : i # j => id[sockets[i]] # id[sockets[j]]
    /\ Len(sockets) <= next_sid

\* a connection was just opened next to another, after a third had been closed
C15_Witness ==
    /\ last.op = "open"
    /\ Len(sockets) >= 2
    /\ Len(sockets) < next_sid
    /\ sockets[Len(sockets)] = last.conn

(***************************************************************************)
(* C16: on_message, whatever the message, leaves the listener table, the   *)
(* active set and _next_sid as they were; the table changes only in a      *)
(* registration (register_listener, on, the decorator), the active set     *)
(* only in open (register_socket) and on_close, _next_sid only in open.    *)
(***************************************************************************)
C16_OnMessageFramesRouter ==
    [][/\ last'.op = "on_message" =>
             /\ listeners' = listeners
             /\ sockets' = sockets
             /\ next_sid' = next_sid
       /\ listeners' # listeners => last'.registers
       /\ sockets' # sockets => last'.op \in {"open", "on_close"}
       /\ next_sid' # next_sid => last'.op = "open"]_vars

\* a message without a bracket reached an open, registered connection
C16_Witness ==
    /\ Received
    /\ last.exc = "AttributeError"
    /\ First \in Range(sockets)
    /\ DOMAIN listeners # {}

(***************************************************************************)
(* C18: per-connection order.  The listener invocations made for a         *)
(* connection happen in the order of the deliveries they belong to: the    *)
(* invocation for the n-th delivery is made during the n-th on_message,    *)
(* after those of all earlier deliveries, whatever was delivered between.  *)
(***************************************************************************)
C18_OrderPreserved ==
    \A c \in Conns :
        /\ \A i, j \in DOMAIN calls[c] : i < j => calls[c][i] < calls[c][j]
        /\ \A i \in DOMAIN calls[c] : calls[c][i] \in 1..delivered[c]
        /\ (Received /\ last.conn = c /\ last.invoked # None) =>
              /\ calls[c] # <<>>
              /\ calls[c][Len(calls[c])] = delivered[c]

\* first and third delivery invoked a listener, the second was not dispatched
C18_Witness ==
    /\ calls[First] = <<1, 3>>
    /\ Received
    /\ last.invoked # None

(***************************************************************************)
(* C17: connections opened from separate threads, the statements of their  *)
(* register_socket calls interleaved, still get distinct ids and are in    *)
(* the active set exactly once each.  Fails: nothing excludes one          *)
(* registration from another, and both threads read _next_sid after both   *)
(* increments.                                                             *)
(***************************************************************************)
C17_InterleavedOpensDistinct ==
    \A c \in Conns, d \in Conns :
        (c # d /\ phase[c] = "open" /\ phase[d] = "open") =>
            /\ id[c] # id[d]
            /\ Cardinality({i \in DOMAIN sockets : sockets[i] = c}) = 1
            /\ Cardinality({i \in DOMAIN sockets : sockets[i] = d}) = 1

(***************************************************************************)
(* C19: get_socket_by_id(i) returns the active connection whose id is i,   *)
(* and None when no active connection has id i.  Fails: i is used as a     *)
(* place in the list, and places shift down when an earlier entry is       *)
(* removed.                                                                *)
(***************************************************************************)
C19_LookupById ==
    last.op = "get_socket_by_id" =>
        LET holders == {c \in Range(sockets) : id[c] = last.key}
        IN  IF holders = {} THEN last.ret = None
            ELSE last.ret # None /\ last.ret[1] \in holders

(***************************************************************************)
(* C20: when the on_open hook is called for a connection, the connection's *)
(* url_param already is the value the transport passed to open.  Fails:    *)
(* open calls add_to_router (and so the hook) before it assigns url_param. *)
(***************************************************************************)
C20_UrlParamAtHook ==
    (last.op = "open" /\ last.hook # None) =>
        /\ last.hook[1].url_param # None
        /\ last.hook[1].url_param = url_param[last.conn]

====
